---- MODULE Spec2Model ----
(***************************************************************************)
(* Capital Marketplace backend: the investability scoring engine and the   *)
(* request handlers that mutate the data it reads (company, KYC,           *)
(* financials, documents), with the notification and audit sinks.          *)
(*                                                                         *)
(* Every route handler is an async function: each `await` on the database  *)
(* is one atomic step, and the handlers of concurrent requests interleave  *)
(* between awaits.  A request slot holds one handler's locals and its      *)
(* position.                                                               *)
(***************************************************************************)
EXTENDS Integers, Sequences, FiniteSets, TLC

\* ---------------------------------------------------------------- bounds
MaxProcs == 2
MaxRequests == 2
MaxSeqRequests == 3
MaxCompanies == 2
MaxDocs == 2
MaxUsers == 2
MaxScoredDocs == 6
MaxNotifications == 2
MaxDays == 2

\* ------------------------------------------------------------ input sets
Procs == 1..MaxProcs
Users == 1..MaxUsers
CreateInputs ==
  {[revenue |-> 500000, targetRaise |-> 2000000],
   [revenue |-> -1, targetRaise |-> 2000000],
   [revenue |-> 500000, targetRaise |-> 0]}
PatchRevenues == {-1000000, 1000000}
KycModes == {"mock", "inquiry", "none"}
Categories == {"pitch-deck", "other"}
Uploads == {"none", "bad"} \cup Categories
\* revenues a stored company is scored with: both ends of the scale, the
\* halves 0.5, 12.5 and 14.5, their neighbours, and a value PUT can store
Revenues == {-1000000, 0, 19999, 20000, 500000, 580000, 999999, 1000000, 2000000}

VARIABLES users, companies, documents, nextDoc, notifications, audit, hookRows,
          req, started, limits

vars ==
  <<users, companies, documents, nextDoc, notifications, audit, hookRows, req, started,
    limits>>
db == <<users, companies, documents, nextDoc, notifications, audit, hookRows>>

\* ------------------------------------------------------- scoring engine
MathRound(num, den) == (2 * num + den) \div (2 * den)

\* (revenue / maxRevenue) * maxPoints is evaluated in IEEE doubles, quotient
\* first: of the whole revenues below 1000000 whose exact product is k + 0.5,
\* these give the double just under it (580000 / 1000000 * 25 is
\* 14.499999999999998), which Math.round takes down
RoundsBelowHalf == {580000}

calculateRevenueScore(revenue) ==
  IF revenue >= 1000000 THEN 25
  ELSE MathRound(revenue * 25, 1000000)
         - (IF revenue \in RoundsBelowHalf THEN 1 ELSE 0)

Min(a, b) == IF a <= b THEN a ELSE b

CompanyExists(cid) == cid \in 1..Len(companies)

DocumentsOf_pitchDecksOnly(cid) ==
  {d \in documents : d.companyId = cid /\ d.category = "pitch-deck"}

DocumentsOf(cid) == {d \in documents : d.companyId = cid}

Breakdown_flagsSwapped(company, documentCount) ==
  [kycVerified |-> IF company.financialsLinked THEN 30 ELSE 0,
   financialsLinked |-> IF company.kycVerified THEN 20 ELSE 0,
   documentsUploaded |-> Min(documentCount * 5, 25),
   revenueScore |-> calculateRevenueScore(company.revenue)]

Breakdown_uncapped(company, documentCount) ==
  [kycVerified |-> IF company.kycVerified THEN 30 ELSE 0,
   financialsLinked |-> IF company.financialsLinked THEN 20 ELSE 0,
   documentsUploaded |-> documentCount * 5,
   revenueScore |-> calculateRevenueScore(company.revenue)]

Breakdown(company, documentCount) ==
  [kycVerified |-> IF company.kycVerified THEN 30 ELSE 0,
   financialsLinked |-> IF company.financialsLinked THEN 20 ELSE 0,
   documentsUploaded |-> Min(documentCount * 5, 25),
   revenueScore |-> calculateRevenueScore(company.revenue)]

BreakdownSum(b) ==
  b.kycVerified + b.financialsLinked + b.documentsUploaded + b.revenueScore

ScoreOf_cappedBelow(company, documentCount) ==
  [score |-> Min(BreakdownSum(Breakdown(company, documentCount)), 99),
   breakdown |-> Breakdown(company, documentCount)]

ScoreOf(company, documentCount) ==
  [score |-> Min(BreakdownSum(Breakdown(company, documentCount)), 100),
   breakdown |-> Breakdown(company, documentCount)]

\* findUnique({ include: { documents: true } }) then the formula
calculateScore(cid) == ScoreOf(companies[cid], Cardinality(DocumentsOf(cid)))

\* one recommendation; the document line interpolates the count and the "s"
Message(text) == [text |-> text, needed |-> 0, suffix |-> ""]

Recommendations_revenueFirst(company, documentCount) ==
  LET needed == 5 - documentCount
  IN (IF company.revenue < 1000000
      THEN <<Message("As your revenue grows, your score will automatically improve")>>
      ELSE <<>>)
     \o (IF ~company.kycVerified
         THEN <<Message("Complete KYC verification to earn 30 points")>> ELSE <<>>)
     \o (IF ~company.financialsLinked
         THEN <<Message("Link your bank account to earn 20 points")>> ELSE <<>>)
     \o (IF documentCount < 5
         THEN <<[text |-> "Upload N more document to maximize document points",
                 needed |-> needed,
                 suffix |-> IF needed > 1 THEN "s" ELSE ""]>>
         ELSE <<>>)

Recommendations_alwaysPlural(company, documentCount) ==
  LET needed == 5 - documentCount
  IN (IF ~company.kycVerified
      THEN <<Message("Complete KYC verification to earn 30 points")>> ELSE <<>>)
     \o (IF ~company.financialsLinked
         THEN <<Message("Link your bank account to earn 20 points")>> ELSE <<>>)
     \o (IF documentCount < 5
         THEN <<[text |-> "Upload N more document to maximize document points",
                 needed |-> needed, suffix |-> "s"]>>
         ELSE <<>>)
     \o (IF company.revenue < 1000000
         THEN <<Message("As your revenue grows, your score will automatically improve")>>
         ELSE <<>>)

\* recommendations.push(...) under each of the four conditions, in order
Recommendations(company, documentCount) ==
  LET needed == 5 - documentCount
  IN (IF ~company.kycVerified
      THEN <<Message("Complete KYC verification to earn 30 points")>> ELSE <<>>)
     \o (IF ~company.financialsLinked
         THEN <<Message("Link your bank account to earn 20 points")>> ELSE <<>>)
     \o (IF documentCount < 5
         THEN <<[text |-> "Upload N more document to maximize document points",
                 needed |-> needed,
                 suffix |-> IF needed > 1 THEN "s" ELSE ""]>>
         ELSE <<>>)
     \o (IF company.revenue < 1000000
         THEN <<Message("As your revenue grows, your score will automatically improve")>>
         ELSE <<>>)

getRecommendations(cid) ==
  Recommendations(companies[cid], Cardinality(DocumentsOf(cid)))

\* -------------------------------------------------------- request slots
NoPatch == [field |-> "none", num |-> 0, flag |-> FALSE, user |-> 0]

IdleReq ==
  [op |-> "none", pc |-> "idle", cid |-> 0, email |-> 0, revenue |-> 0,
   targetRaise |-> 0, mode |-> "", patch |-> NoPatch, category |-> "",
   fileOk |-> FALSE, doc |-> 0, owner |-> 0, userFound |-> FALSE,
   status |-> 0, err |-> "", persisted |-> FALSE, scoreChanged |-> FALSE,
   changeCalls |-> 0, notified |-> 0, notifyFailed |-> FALSE,
   audited |-> 0, result |-> <<>>, userId |-> 0, notificationId |-> 0,
   olderThanDays |-> 0]

Free(p) == req[p].pc \in {"idle", "done"}

InFlight(op) == Cardinality({p \in Procs : req[p].op = op /\ ~Free(p)})

CanStart(p) ==
  /\ p <= limits.procs
  /\ Free(p)
  /\ \A q \in Procs : q < p => ~Free(q)
  /\ started < limits.requests

\* the response is sent: the handler's locals are dropped, the outcome stays
Respond(r, status, err) ==
  [IdleReq EXCEPT !.op = r.op, !.pc = "done", !.cid = r.cid, !.status = status,
                  !.err = err, !.persisted = r.persisted,
                  !.scoreChanged = r.scoreChanged, !.changeCalls = r.changeCalls,
                  !.notified = r.notified, !.notifyFailed = r.notifyFailed,
                  !.audited = r.audited]

\* a new request takes the first free slot; earlier responses are forgotten
Begin(p, r) ==
  req' = [q \in Procs |-> IF q = p THEN r ELSE IF Free(q) THEN IdleReq ELSE req[q]]

\* ids a request can name: every existing company and one id not in use
Targets == 1..Min(Len(companies) + 1, MaxCompanies)

\* emails a request can name: every known user and one new address
Emails == {u \in Users : u \in users \/ \A v \in Users : v \notin users => u <= v}

At(p, op, pc) == req[p].op = op /\ req[p].pc = pc

Started == started' = started + 1 /\ UNCHANGED limits

\* sinks
\* data.documentName is the name of the stored document, here its id
\* time is counted in whole days and every run happens on one day
Today == MaxDays

\* the row NotificationService.create inserts into an empty table: no readAt
\* (<<>> is null), createdAt now
NotificationRow(userId, type, event) ==
  [id |-> 1, userId |-> userId, type |-> type, event |-> event, documentName |-> 0,
   createdAt |-> Today, readAt |-> <<>>]

\* uuid(): an id no stored row has
NextNotificationId ==
  1 + (IF notifications = <<>> THEN 0
       ELSE CHOOSE m \in {notifications[i].id : i \in 1..Len(notifications)} :
              \A i \in 1..Len(notifications) : notifications[i].id <= m)

NewNotification(userId, type, event) ==
  [NotificationRow(userId, type, event) EXCEPT !.id = NextNotificationId]

AuditRow(userId, action, kind, id) ==
  [userId |-> userId, action |-> action, resource |-> [kind |-> kind, id |-> id]]

\* the global preHandler hook writes one audit row per request; its action is
\* the request line, which no reader of the table selects, so these rows are
\* counted and the handlers' rows keep their order in audit
auditLog == hookRows' = hookRows + 1 /\ UNCHANGED audit

EmptyDb ==
  /\ users = {}
  /\ companies = <<>>
  /\ documents = {}
  /\ nextDoc = 1
  /\ notifications = <<>>
  /\ audit = <<>>
  /\ hookRows = 0

\* the database as one successful POST /api/company leaves it
OnboardedDb ==
  /\ users = {1}
  /\ companies = <<[userId |-> 1, revenue |-> 500000, targetRaise |-> 2000000,
                    kycVerified |-> FALSE, financialsLinked |-> FALSE]>>
  /\ documents = {}
  /\ nextDoc = 1
  /\ notifications = <<NotificationRow(1, "success", "onboarding_complete")>>
  /\ audit = <<>>
  /\ hookRows = 1

\* the server starts over the persistent database with no request in flight
Listening == req = [p \in Procs |-> IdleReq] /\ started = 0

\* concurrent requests: two handlers in flight at a time, which is what a race
\* between two awaits needs
Init ==
  /\ EmptyDb \/ OnboardedDb
  /\ Listening
  /\ limits = [procs |-> 2, requests |-> MaxRequests]

\* one request at a time
InitSeq ==
  /\ EmptyDb \/ OnboardedDb
  /\ Listening
  /\ limits = [procs |-> 1, requests |-> MaxSeqRequests]

\* ------------------------------------------------- POST /api/company
CreateStart(p) ==
  /\ CanStart(p)
  /\ Len(companies) + InFlight("create") < MaxCompanies
  /\ \E email \in Emails, body \in CreateInputs :
       LET r == [IdleReq EXCEPT !.op = "create", !.email = email,
                                !.revenue = body.revenue,
                                !.targetRaise = body.targetRaise]
       IN Begin(p, IF body.revenue >= 0 /\ body.targetRaise > 0
                   THEN [r EXCEPT !.pc = "c_findUser"]
                   ELSE Respond(r, 400, "Validation"))
  /\ auditLog
  /\ Started
  /\ UNCHANGED <<users, companies, documents, nextDoc, notifications>>

CreateFindUser(p) ==
  /\ At(p, "create", "c_findUser")
  /\ req' = [req EXCEPT ![p].userFound = req[p].email \in users,
                        ![p].pc = IF req[p].email \in users
                                  THEN "c_findCompany" ELSE "c_createUser"]
  /\ UNCHANGED <<db, started, limits>>

CreateUser(p) ==
  /\ At(p, "create", "c_createUser")
  /\ IF req[p].email \in users
     THEN /\ req' = [req EXCEPT ![p] = Respond(req[p], 500, "Internal")]
          /\ UNCHANGED users
     ELSE /\ users' = users \cup {req[p].email}
          /\ req' = [req EXCEPT ![p].pc = "c_findCompany"]
  /\ UNCHANGED <<companies, documents, nextDoc, notifications, audit, started, limits, hookRows>>

CreateFindCompany(p) ==
  /\ At(p, "create", "c_findCompany")
  /\ req' = [req EXCEPT ![p] =
               IF \E c \in 1..Len(companies) : companies[c].userId = req[p].email
               THEN Respond(req[p], 409, "Conflict")
               ELSE [req[p] EXCEPT !.pc = "c_create"]]
  /\ UNCHANGED <<db, started, limits>>

CreateCompany(p) ==
  /\ At(p, "create", "c_create")
  /\ companies' = Append(companies,
       [userId |-> req[p].email, revenue |-> req[p].revenue,
        targetRaise |-> req[p].targetRaise,
        kycVerified |-> FALSE, financialsLinked |-> FALSE])
  /\ req' = [req EXCEPT ![p].cid = Len(companies) + 1, ![p].persisted = TRUE,
                        ![p].pc = "c_notify"]
  /\ UNCHANGED <<users, documents, nextDoc, notifications, audit, started, limits, hookRows>>

CreateNotify(p) ==
  /\ At(p, "create", "c_notify")
  /\ \E ok \in BOOLEAN :
       IF ok
       THEN /\ notifications' = Append(notifications,
                 NewNotification(req[p].email, "success", "onboarding_complete"))
            /\ req' = [req EXCEPT ![p] =
                 Respond([req[p] EXCEPT !.notified = @ + 1], 201, "")]
       ELSE /\ req' = [req EXCEPT ![p] =
                 Respond([req[p] EXCEPT !.notifyFailed = TRUE], 500, "Internal")]
            /\ UNCHANGED notifications
  /\ UNCHANGED <<users, companies, documents, nextDoc, audit, started, limits, hookRows>>

\* ------------------------------------------------- PUT /api/company/:id
\* The body is spread into the update unvalidated: any column can be set.
Patches ==
  {[NoPatch EXCEPT !.field = "revenue", !.num = r] : r \in PatchRevenues}
    \cup {[NoPatch EXCEPT !.field = "kycVerified", !.flag = FALSE]}
    \cup {[NoPatch EXCEPT !.field = "financialsLinked", !.flag = TRUE]}

ApplyPatch(company, patch) ==
  CASE patch.field = "revenue" -> [company EXCEPT !.revenue = patch.num]
    [] patch.field = "targetRaise" -> [company EXCEPT !.targetRaise = patch.num]
    [] patch.field = "kycVerified" -> [company EXCEPT !.kycVerified = patch.flag]
    [] patch.field = "financialsLinked" -> [company EXCEPT !.financialsLinked = patch.flag]
    [] patch.field = "userId" -> [company EXCEPT !.userId = patch.user]
    [] OTHER -> company

UpdateStart(p) ==
  /\ CanStart(p)
  /\ \E cid \in Targets, patch \in Patches :
       Begin(p, [IdleReq EXCEPT !.op = "update", !.cid = cid, !.patch = patch,
                                !.pc = "u_find"])
  /\ auditLog
  /\ Started
  /\ UNCHANGED <<users, companies, documents, nextDoc, notifications>>

UpdateFind(p) ==
  /\ At(p, "update", "u_find")
  /\ req' = [req EXCEPT ![p] =
               IF ~CompanyExists(req[p].cid)
               THEN Respond(req[p], 404, "NotFound")
               ELSE [req[p] EXCEPT !.pc = "u_update"]]
  /\ UNCHANGED <<db, started, limits>>

UpdateCompany(p) ==
  /\ At(p, "update", "u_update")
  /\ LET cid == req[p].cid
         patch == req[p].patch
     IN IF patch.field = "userId" /\ patch.user \notin users
        THEN /\ req' = [req EXCEPT ![p] = Respond(req[p], 500, "Internal")]
             /\ UNCHANGED companies
        ELSE /\ companies' = [companies EXCEPT ![cid] = ApplyPatch(@, patch)]
             /\ req' = [req EXCEPT ![p] =
                  Respond([req[p] EXCEPT !.persisted = TRUE,
                                         !.scoreChanged =
                                           ScoreOf(ApplyPatch(companies[cid], patch),
                                                   Cardinality(DocumentsOf(cid)))
                                             # calculateScore(cid)],
                          200, "")]
  /\ UNCHANGED <<users, documents, nextDoc, notifications, audit, started, limits, hookRows>>

\* ------------------------------------- steps shared by the mutation routes
\* db.company.findUnique({ where: { id }, include: { user: true } })
FindCompany(p, alreadyDone, nextPc) ==
  req' = [req EXCEPT ![p] =
    IF ~CompanyExists(req[p].cid)
    THEN Respond(req[p], 404, "NotFound")
    ELSE IF alreadyDone
    THEN Respond(req[p], 400, "AlreadyDone")
    ELSE [req[p] EXCEPT !.owner = companies[req[p].cid].userId, !.pc = nextPc]]

\* db.company.update({ where: { id }, data: { <flag>: value } })
SetFlag(p, field, value, nextPc) ==
  LET cid == req[p].cid
      patch == [NoPatch EXCEPT !.field = field, !.flag = value]
  IN /\ companies' = [companies EXCEPT ![cid] = ApplyPatch(@, patch)]
     /\ req' = [req EXCEPT ![p].persisted = TRUE,
                           ![p].scoreChanged =
                             ScoreOf(ApplyPatch(companies[cid], patch),
                                     Cardinality(DocumentsOf(cid)))
                               # calculateScore(cid),
                           ![p].pc = nextPc]

\* NotificationService.create: the insert may fail, and the throw reaches
\* the handler's catch block
Notify(p, type, event, nextPc, failStatus) ==
  \E ok \in BOOLEAN :
    IF ok
    THEN /\ notifications' = Append(notifications,
              [NewNotification(req[p].owner, type, event) EXCEPT
                 !.documentName = IF event = "document_uploaded" THEN req[p].doc ELSE 0])
         /\ req' = [req EXCEPT ![p].notified = @ + 1, ![p].pc = nextPc]
    ELSE /\ req' = [req EXCEPT ![p] =
              Respond([req[p] EXCEPT !.notifyFailed = TRUE], failStatus, "Internal")]
         /\ UNCHANGED notifications

\* InvestabilityService.onCompanyDataChange: recompute and log
onCompanyDataChange(p, nextPc, failStatus) ==
  req' = [req EXCEPT ![p] =
    IF ~CompanyExists(req[p].cid)
    THEN Respond(req[p], failStatus, "Internal")
    ELSE [req[p] EXCEPT !.changeCalls = @ + 1, !.pc = nextPc]]

\* db.auditLog.create, then the success response
AuditAndRespond(p, action, kind, id, status) ==
  /\ audit' = Append(audit, AuditRow(req[p].owner, action, kind, id))
  /\ req' = [req EXCEPT ![p] = Respond([req[p] EXCEPT !.audited = @ + 1], status, "")]

\* ------------------------------------------------- POST /api/kyc/verify
KycStart(p) ==
  /\ CanStart(p)
  /\ \E cid \in Targets, mode \in KycModes :
       Begin(p, [IdleReq EXCEPT !.op = "kyc", !.cid = cid, !.mode = mode,
                                !.pc = "k_find"])
  /\ auditLog
  /\ Started
  /\ UNCHANGED <<users, companies, documents, nextDoc, notifications>>

KycAlreadyVerified_unchecked(p) == FALSE

KycAlreadyVerified(p) == companies[req[p].cid].kycVerified

\* find the company, check the flag, then decide `verified`
KycFind(p) ==
  /\ At(p, "kyc", "k_find")
  /\ IF ~CompanyExists(req[p].cid) \/ KycAlreadyVerified(p)
     THEN FindCompany(p, CompanyExists(req[p].cid), "k_update")
     ELSE \E persona \in BOOLEAN :
            LET r == [req[p] EXCEPT !.owner = companies[req[p].cid].userId,
                                    !.mode = ""]
            IN req' = [req EXCEPT ![p] =
                 CASE req[p].mode = "mock" -> [r EXCEPT !.pc = "k_update"]
                   [] req[p].mode = "inquiry" ->
                        IF persona THEN [r EXCEPT !.pc = "k_update"]
                        ELSE Respond(r, 200, "")
                   [] OTHER -> Respond(r, 400, "Validation")]
  /\ UNCHANGED <<db, started, limits>>

KycUpdate(p) ==
  /\ At(p, "kyc", "k_update")
  /\ SetFlag(p, "kycVerified", TRUE, "k_notify")
  /\ UNCHANGED <<users, documents, nextDoc, notifications, audit, started, limits, hookRows>>

KycNotify(p) ==
  /\ At(p, "kyc", "k_notify")
  /\ Notify(p, "success", "kyc_verified", "k_change", 500)
  /\ UNCHANGED <<users, companies, documents, nextDoc, audit, started, limits, hookRows>>

KycChange_notifying(p) ==
  /\ At(p, "kyc", "k_change")
  /\ req' = [req EXCEPT ![p].changeCalls = @ + 1, ![p].pc = "k_audit"]
  /\ notifications' = Append(notifications,
       NewNotification(req[p].owner, "success", "score_improved"))
  /\ UNCHANGED <<users, companies, documents, nextDoc, audit, hookRows, started, limits>>

KycChange(p) ==
  /\ At(p, "kyc", "k_change")
  /\ onCompanyDataChange(p, "k_audit", 500)
  /\ UNCHANGED <<db, started, limits>>

KycAudit(p) ==
  /\ At(p, "kyc", "k_audit")
  /\ AuditAndRespond(p, "kyc_verified", "Company", req[p].cid, 200)
  /\ UNCHANGED <<users, companies, documents, nextDoc, notifications, started, limits, hookRows>>

\* -------------------------------------------- POST /api/financials/link
LinkStart(p) ==
  /\ CanStart(p)
  /\ \E cid \in Targets :
       Begin(p, [IdleReq EXCEPT !.op = "link", !.cid = cid, !.pc = "l_find"])
  /\ auditLog
  /\ Started
  /\ UNCHANGED <<users, companies, documents, nextDoc, notifications>>

LinkAlreadyLinked_unchecked(p) == FALSE

LinkAlreadyLinked(p) == companies[req[p].cid].financialsLinked

LinkFind(p) ==
  /\ At(p, "link", "l_find")
  /\ FindCompany(p, CompanyExists(req[p].cid) /\ LinkAlreadyLinked(p), "l_update")
  /\ UNCHANGED <<db, started, limits>>

LinkUpdate(p) ==
  /\ At(p, "link", "l_update")
  /\ SetFlag(p, "financialsLinked", TRUE, "l_notify")
  /\ UNCHANGED <<users, documents, nextDoc, notifications, audit, started, limits, hookRows>>

LinkNotify_omitted(p) ==
  /\ At(p, "link", "l_notify")
  /\ req' = [req EXCEPT ![p].pc = "l_change"]
  /\ UNCHANGED <<db, started, limits>>

LinkNotify(p) ==
  /\ At(p, "link", "l_notify")
  /\ Notify(p, "success", "financials_linked", "l_change", 500)
  /\ UNCHANGED <<users, companies, documents, nextDoc, audit, started, limits, hookRows>>

LinkChange(p) ==
  /\ At(p, "link", "l_change")
  /\ onCompanyDataChange(p, "l_audit", 500)
  /\ UNCHANGED <<db, started, limits>>

LinkAudit(p) ==
  /\ At(p, "link", "l_audit")
  /\ AuditAndRespond(p, "financials_linked", "Company", req[p].cid, 200)
  /\ UNCHANGED <<users, companies, documents, nextDoc, notifications, started, limits, hookRows>>

\* --------------------------------- DELETE /api/financials/link/:companyId
UnlinkStart(p) ==
  /\ CanStart(p)
  /\ \E cid \in Targets :
       Begin(p, [IdleReq EXCEPT !.op = "unlink", !.cid = cid, !.pc = "x_find"])
  /\ auditLog
  /\ Started
  /\ UNCHANGED <<users, companies, documents, nextDoc, notifications>>

UnlinkFind(p) ==
  /\ At(p, "unlink", "x_find")
  /\ IF CompanyExists(req[p].cid) /\ ~companies[req[p].cid].financialsLinked
     THEN req' = [req EXCEPT ![p] = Respond(req[p], 400, "NotLinked")]
     ELSE FindCompany(p, FALSE, "x_update")
  /\ UNCHANGED <<db, started, limits>>

UnlinkUpdate(p) ==
  /\ At(p, "unlink", "x_update")
  /\ SetFlag(p, "financialsLinked", FALSE, "x_change")
  /\ UNCHANGED <<users, documents, nextDoc, notifications, audit, started, limits, hookRows>>

UnlinkChange_omitted(p) ==
  /\ At(p, "unlink", "x_change")
  /\ req' = [req EXCEPT ![p].pc = "x_audit"]
  /\ UNCHANGED <<db, started, limits>>

UnlinkChange(p) ==
  /\ At(p, "unlink", "x_change")
  /\ onCompanyDataChange(p, "x_audit", 500)
  /\ UNCHANGED <<db, started, limits>>

UnlinkAudit(p) ==
  /\ At(p, "unlink", "x_audit")
  /\ AuditAndRespond(p, "financials_unlinked", "Company", req[p].cid, 200)
  /\ UNCHANGED <<users, companies, documents, nextDoc, notifications, started, limits, hookRows>>

\* ------------------------------------------- POST /api/files/:companyId
UploadStart(p) ==
  /\ CanStart(p)
  /\ (nextDoc - 1) + InFlight("upload") < MaxDocs
  /\ \E cid \in Targets, upload \in Uploads :
       Begin(p, [IdleReq EXCEPT !.op = "upload", !.cid = cid, !.category = upload,
                                !.pc = "f_find"])
  /\ auditLog
  /\ Started
  /\ UNCHANGED <<users, companies, documents, nextDoc, notifications>>

\* find the company, then read the multipart file
UploadFind(p) ==
  /\ At(p, "upload", "f_find")
  /\ IF CompanyExists(req[p].cid) /\ req[p].category = "none"
     THEN req' = [req EXCEPT ![p] = Respond(req[p], 400, "Validation")]
     ELSE FindCompany(p, FALSE, "f_upload")
  /\ UNCHANGED <<db, started, limits>>

UploadFile_lastWriteWins(p) ==
  /\ At(p, "upload", "f_upload")
  /\ IF req[p].category = "bad"
     THEN /\ req' = [req EXCEPT ![p] = Respond(req[p], 500, "Internal")]
          /\ UNCHANGED <<documents, nextDoc>>
     ELSE /\ documents' = {d \in documents : d.companyId # req[p].cid} \cup
               {[id |-> nextDoc, companyId |-> req[p].cid, category |-> req[p].category]}
          /\ nextDoc' = nextDoc + 1
          /\ req' = [req EXCEPT ![p].doc = nextDoc, ![p].persisted = TRUE,
                                ![p].scoreChanged =
                                  ScoreOf(companies[req[p].cid],
                                          Cardinality(DocumentsOf(req[p].cid)) + 1)
                                    # calculateScore(req[p].cid),
                                ![p].category = "",
                                ![p].pc = "f_notify"]
  /\ UNCHANGED <<users, companies, notifications, audit, started, limits, hookRows>>

\* FileService.uploadFile: validateFile throws, or the document row is created
UploadFile(p) ==
  /\ At(p, "upload", "f_upload")
  /\ IF req[p].category = "bad"
     THEN /\ req' = [req EXCEPT ![p] = Respond(req[p], 500, "Internal")]
          /\ UNCHANGED <<documents, nextDoc>>
     ELSE /\ documents' = documents \cup
               {[id |-> nextDoc, companyId |-> req[p].cid, category |-> req[p].category]}
          /\ nextDoc' = nextDoc + 1
          /\ req' = [req EXCEPT ![p].doc = nextDoc, ![p].persisted = TRUE,
                                ![p].scoreChanged =
                                  ScoreOf(companies[req[p].cid],
                                          Cardinality(DocumentsOf(req[p].cid)) + 1)
                                    # calculateScore(req[p].cid),
                                ![p].category = "",
                                ![p].pc = "f_notify"]
  /\ UNCHANGED <<users, companies, notifications, audit, started, limits, hookRows>>

UploadNotify_omitted(p) ==
  /\ At(p, "upload", "f_notify")
  /\ req' = [req EXCEPT ![p].pc = "f_change"]
  /\ UNCHANGED <<db, started, limits>>

UploadNotify(p) ==
  /\ At(p, "upload", "f_notify")
  /\ Notify(p, "info", "document_uploaded", "f_change", 500)
  /\ UNCHANGED <<users, companies, documents, nextDoc, audit, started, limits, hookRows>>

UploadChange(p) ==
  /\ At(p, "upload", "f_change")
  /\ onCompanyDataChange(p, "f_audit", 500)
  /\ UNCHANGED <<db, started, limits>>

UploadAudit(p) ==
  /\ At(p, "upload", "f_audit")
  /\ AuditAndRespond(p, "document_uploaded", "Document", req[p].doc, 201)
  /\ UNCHANGED <<users, companies, documents, nextDoc, notifications, started, limits, hookRows>>

\* ------------------------------- DELETE /api/files/:companyId/:fileId
\* file ids a request can name: every id handed out and one never used
FileTargets == 1..Min(nextDoc, MaxDocs)

FileFound(p) ==
  \E d \in documents : d.id = req[p].doc /\ d.companyId = req[p].cid

DeleteStart(p) ==
  /\ CanStart(p)
  /\ \E cid \in Targets, fileId \in FileTargets :
       Begin(p, [IdleReq EXCEPT !.op = "delete", !.cid = cid, !.doc = fileId,
                                !.pc = "d_getFile"])
  /\ auditLog
  /\ Started
  /\ UNCHANGED <<users, companies, documents, nextDoc, notifications>>

\* FileService.getFile: throws 'File not found', which the catch answers 404
DeleteGetFile(p) ==
  /\ At(p, "delete", "d_getFile")
  /\ req' = [req EXCEPT ![p] =
               IF FileFound(p) THEN [req[p] EXCEPT !.pc = "d_findCompany"]
               ELSE Respond(req[p], 404, "NotFound")]
  /\ UNCHANGED <<db, started, limits>>

DeleteFindCompany(p) ==
  /\ At(p, "delete", "d_findCompany")
  /\ req' = [req EXCEPT ![p].owner = IF CompanyExists(req[p].cid)
                                     THEN companies[req[p].cid].userId ELSE 0,
                        ![p].userFound = CompanyExists(req[p].cid),
                        ![p].pc = "d_lookup"]
  /\ UNCHANGED <<db, started, limits>>

\* FileService.deleteFile: findFirst, ...
DeleteLookup(p) ==
  /\ At(p, "delete", "d_lookup")
  /\ req' = [req EXCEPT ![p] =
               IF FileFound(p) THEN [req[p] EXCEPT !.pc = "d_delete"]
               ELSE Respond(req[p], 404, "NotFound")]
  /\ UNCHANGED <<db, started, limits>>

\* ... then db.document.delete, which throws when the row is gone
DeleteFile(p) ==
  /\ At(p, "delete", "d_delete")
  /\ IF \E d \in documents : d.id = req[p].doc
     THEN /\ documents' = {d \in documents : d.id # req[p].doc}
          /\ req' = [req EXCEPT ![p].persisted = TRUE,
                                ![p].scoreChanged =
                                  ScoreOf(companies[req[p].cid],
                                          Cardinality(DocumentsOf(req[p].cid)) - 1)
                                    # calculateScore(req[p].cid),
                                ![p].pc = "d_change"]
     ELSE /\ req' = [req EXCEPT ![p] = Respond(req[p], 404, "NotFound")]
          /\ UNCHANGED documents
  /\ UNCHANGED <<users, companies, nextDoc, notifications, audit, started, limits, hookRows>>

DeleteChange(p) ==
  /\ At(p, "delete", "d_change")
  /\ onCompanyDataChange(p, "d_audit", 404)
  /\ UNCHANGED <<db, started, limits>>

DeleteAudit(p) ==
  /\ At(p, "delete", "d_audit")
  /\ IF req[p].userFound
     THEN AuditAndRespond(p, "document_deleted", "Document", req[p].doc, 200)
     ELSE req' = [req EXCEPT ![p] = Respond(req[p], 200, "")] /\ UNCHANGED audit
  /\ UNCHANGED <<users, companies, documents, nextDoc, notifications, started, limits, hookRows>>

\* ------------------------------ POST /api/score/:companyId/recalculate
RecalcStart(p) ==
  /\ CanStart(p)
  /\ \E cid \in Targets :
       Begin(p, [IdleReq EXCEPT !.op = "recalculate", !.cid = cid, !.pc = "r_find"])
  /\ auditLog
  /\ Started
  /\ UNCHANGED <<users, companies, documents, nextDoc, notifications>>

RecalcFind(p) ==
  /\ At(p, "recalculate", "r_find")
  /\ FindCompany(p, FALSE, "r_calculate")
  /\ UNCHANGED <<db, started, limits>>

\* the score the response will carry
RecalcCalculate(p) ==
  /\ At(p, "recalculate", "r_calculate")
  /\ req' = [req EXCEPT ![p] =
               IF ~CompanyExists(req[p].cid)
               THEN Respond(req[p], 500, "Internal")
               ELSE [req[p] EXCEPT !.result = <<calculateScore(req[p].cid)>>,
                                   !.pc = "r_change"]]
  /\ UNCHANGED <<db, started, limits>>

\* "trigger any side effects", then the response
RecalcChange(p) ==
  /\ At(p, "recalculate", "r_change")
  /\ req' = [req EXCEPT ![p] =
               IF ~CompanyExists(req[p].cid)
               THEN Respond(req[p], 500, "Internal")
               ELSE Respond([req[p] EXCEPT !.changeCalls = @ + 1], 200, "")]
  /\ UNCHANGED <<db, started, limits>>

\* ----------------------------------- GET /api/score/:companyId/breakdown
ScoreEvents == {"kyc_verified", "financials_linked", "document_uploaded"}

\* the switch on event.action
ScoreChange(action) ==
  CASE action = "kyc_verified" -> 30
    [] action = "financials_linked" -> 20
    [] OTHER -> 5

\* auditLog.findMany: the rows about Company:<companyId> with a score action,
\* oldest first
AuditEvents(companyId) ==
  LET Selected(row) ==
        /\ row.resource = [kind |-> "Company", id |-> companyId]
        /\ row.action \in ScoreEvents
  IN SelectSeq(audit, Selected)

RECURSIVE CurrentScore(_, _)
\* currentScore after the first n events
CurrentScore(events, n) ==
  IF n = 0 THEN 0 ELSE CurrentScore(events, n - 1) + ScoreChange(events[n].action)

getScoreHistory(companyId) ==
  LET auditEvents == AuditEvents(companyId)
  IN [n \in 1..Len(auditEvents) |->
        [event |-> auditEvents[n].action,
         score |-> Min(CurrentScore(auditEvents, n), 100),
         change |-> ScoreChange(auditEvents[n].action)]]

BreakdownStart(p) ==
  /\ CanStart(p)
  /\ \E cid \in Targets :
       Begin(p, [IdleReq EXCEPT !.op = "breakdown", !.cid = cid, !.pc = "b_find"])
  /\ auditLog
  /\ Started
  /\ UNCHANGED <<users, companies, documents, nextDoc, notifications>>

BreakdownFind(p) ==
  /\ At(p, "breakdown", "b_find")
  /\ FindCompany(p, FALSE, "b_score")
  /\ UNCHANGED <<db, started, limits>>

\* Promise.all of calculateScore and getRecommendations, which throw when
\* the company is gone
BreakdownScore(p) ==
  /\ At(p, "breakdown", "b_score")
  /\ req' = [req EXCEPT ![p] =
               IF ~CompanyExists(req[p].cid)
               THEN Respond(req[p], 500, "Internal")
               ELSE [req[p] EXCEPT !.pc = "b_history"]]
  /\ UNCHANGED <<db, started, limits>>

\* getScoreHistory, then the response; the slot keeps its history
BreakdownHistory(p) ==
  /\ At(p, "breakdown", "b_history")
  /\ req' = [req EXCEPT ![p] =
               [Respond(req[p], 200, "") EXCEPT
                  !.result = <<getScoreHistory(req[p].cid)>>]]
  /\ UNCHANGED <<db, started, limits>>

\* ------------------------------------- InvestabilityService, called directly
\* a database holding one company in any scoring state
ScoredDb ==
  /\ users = {1}
  /\ \E k \in BOOLEAN, f \in BOOLEAN, r \in Revenues :
       companies = <<[userId |-> 1, revenue |-> r, targetRaise |-> 2000000,
                      kycVerified |-> k, financialsLinked |-> f]>>
  /\ \E n \in 0..MaxScoredDocs, decks \in 0..MaxScoredDocs :
       /\ decks <= n
       /\ documents = {[id |-> i, companyId |-> 1,
                         category |-> IF i <= decks THEN "pitch-deck" ELSE "other"] :
                          i \in 1..n}
       /\ nextDoc = n + 1
  /\ notifications = <<NotificationRow(1, "success", "onboarding_complete")>>
  /\ audit = <<>>
  /\ hookRows = 1

InitScore ==
  /\ ScoredDb
  /\ Listening
  /\ limits = [procs |-> MaxProcs, requests |-> 0]

\* the outcome of one call: the value returned, or the message of the Error
Returned(fn, cid, value) ==
  [IdleReq EXCEPT !.op = fn, !.pc = "done", !.cid = cid, !.result = <<value>>]

Thrown(fn, cid, message) ==
  [IdleReq EXCEPT !.op = fn, !.pc = "done", !.cid = cid, !.err = message]

CalculateScoreCall_zeroForMissing(p) ==
  /\ \E cid \in Targets :
       req' = [req EXCEPT ![p] =
                 IF CompanyExists(cid)
                 THEN Returned("calculateScore", cid, calculateScore(cid))
                 ELSE [Thrown("calculateScore", cid, "Company not found") EXCEPT
                         !.result = <<[score |-> 0,
                                       breakdown |-> [kycVerified |-> 0,
                                                      financialsLinked |-> 0,
                                                      documentsUploaded |-> 0,
                                                      revenueScore |-> 0]]>>]]
  /\ UNCHANGED <<db, started, limits>>

CalculateScoreCall_audited(p) ==
  /\ \E cid \in Targets :
       req' = [req EXCEPT ![p] =
                 IF CompanyExists(cid)
                 THEN Returned("calculateScore", cid, calculateScore(cid))
                 ELSE Thrown("calculateScore", cid, "Company not found")]
  /\ audit' = Append(audit, AuditRow(0, "score_calculated", "Company", 0))
  /\ UNCHANGED <<users, companies, documents, nextDoc, notifications, hookRows, started,
                 limits>>

CalculateScoreCall(p) ==
  /\ \E cid \in Targets :
       req' = [req EXCEPT ![p] =
                 IF CompanyExists(cid)
                 THEN Returned("calculateScore", cid, calculateScore(cid))
                 ELSE Thrown("calculateScore", cid, "Company not found")]
  /\ UNCHANGED <<db, started, limits>>

GetRecommendationsCall(p) ==
  /\ \E cid \in Targets :
       req' = [req EXCEPT ![p] =
                 IF CompanyExists(cid)
                 THEN Returned("getRecommendations", cid, getRecommendations(cid))
                 ELSE Thrown("getRecommendations", cid, "Company not found")]
  /\ UNCHANGED <<db, started, limits>>

OnCompanyDataChangeCall_notifying(p) ==
  /\ \E cid \in Targets :
       /\ req' = [req EXCEPT ![p] =
                    IF CompanyExists(cid)
                    THEN [Thrown("onCompanyDataChange", cid, "") EXCEPT !.changeCalls = 1]
                    ELSE Thrown("onCompanyDataChange", cid, "Company not found")]
       /\ notifications' =
            IF CompanyExists(cid)
            THEN Append(notifications,
                        NewNotification(companies[cid].userId, "success", "score_improved"))
            ELSE notifications
  /\ UNCHANGED <<users, companies, documents, nextDoc, audit, hookRows, started, limits>>

\* calculateScore, then console.log of the score: nothing is returned
OnCompanyDataChangeCall(p) ==
  /\ \E cid \in Targets :
       req' = [req EXCEPT ![p] =
                 IF CompanyExists(cid)
                 THEN [Thrown("onCompanyDataChange", cid, "") EXCEPT !.changeCalls = 1]
                 ELSE Thrown("onCompanyDataChange", cid, "Company not found")]
  /\ UNCHANGED <<db, started, limits>>

NextScore ==
  \E p \in Procs :
    \/ CalculateScoreCall(p)
    \/ GetRecommendationsCall(p)
    \/ OnCompanyDataChangeCall(p)

Next ==
  \E p \in Procs :
    \/ CreateStart(p)
    \/ CreateFindUser(p)
    \/ CreateUser(p)
    \/ CreateFindCompany(p)
    \/ CreateCompany(p)
    \/ CreateNotify(p)
    \/ UpdateStart(p)
    \/ UpdateFind(p)
    \/ UpdateCompany(p)
    \/ KycStart(p)
    \/ KycFind(p)
    \/ KycUpdate(p)
    \/ KycNotify(p)
    \/ KycChange(p)
    \/ KycAudit(p)
    \/ LinkStart(p)
    \/ LinkFind(p)
    \/ LinkUpdate(p)
    \/ LinkNotify(p)
    \/ LinkChange(p)
    \/ LinkAudit(p)
    \/ UnlinkStart(p)
    \/ UnlinkFind(p)
    \/ UnlinkUpdate(p)
    \/ UnlinkChange(p)
    \/ UnlinkAudit(p)
    \/ UploadStart(p)
    \/ UploadFind(p)
    \/ UploadFile(p)
    \/ UploadNotify(p)
    \/ UploadChange(p)
    \/ UploadAudit(p)
    \/ DeleteStart(p)
    \/ DeleteGetFile(p)
    \/ DeleteFindCompany(p)
    \/ DeleteLookup(p)
    \/ DeleteFile(p)
    \/ DeleteChange(p)
    \/ DeleteAudit(p)
    \/ RecalcStart(p)
    \/ RecalcFind(p)
    \/ RecalcCalculate(p)
    \/ RecalcChange(p)
    \/ BreakdownStart(p)
    \/ BreakdownFind(p)
    \/ BreakdownScore(p)
    \/ BreakdownHistory(p)

Spec == Init /\ [][Next]_vars

SpecSeq == InitSeq /\ [][Next]_vars

SpecScore == InitScore /\ [][NextScore]_vars

\* ------------------------------------------- notification store and routes
\* ?olderThanDays= of a cleanup request: absent (<<>>) or a whole number
QueryDays == {<<>>, <<0>>, <<1>>}

\* query.olderThanDays ? parseInt(query.olderThanDays) : 30, which is also the
\* default parameter of NotificationService.cleanup
olderThanDaysOf(q) == IF q = <<>> THEN 30 ELSE q[1]

\* cutoffDate.setDate(cutoffDate.getDate() - olderThanDays)
cutoffDate(olderThanDays) == Today - olderThanDays

\* a database with users, their companies, and notifications made over the
\* past days by POST /api/notifications/:userId, some of them read since;
\* the users are numbered so that those with notifications come first, in the
\* order of their oldest one
NotifiedDb ==
  /\ \E n \in 1..MaxUsers : users = 1..n
  /\ companies = [u \in users |->
                    [userId |-> u, revenue |-> 500000, targetRaise |-> 2000000,
                     kycVerified |-> FALSE, financialsLinked |-> FALSE]]
  /\ documents = {}
  /\ nextDoc = 1
  /\ \E k \in 0..MaxNotifications :
       \E owner \in [1..k -> users], created \in [1..k -> 1..Today],
          read \in [1..k -> BOOLEAN] :
         /\ \A i \in 1..k, j \in 1..k : i < j => created[i] <= created[j]
         /\ \A i \in 1..k : \A u \in 1..(owner[i] - 1) :
              \E j \in 1..(i - 1) : owner[j] = u
         /\ notifications =
              [i \in 1..k |->
                 [NotificationRow(owner[i], "info", "none") EXCEPT
                    !.id = i, !.createdAt = created[i],
                    !.readAt = IF read[i] THEN <<Today>> ELSE <<>>]]
  /\ audit = <<>>
  /\ hookRows = 0

\* service calls one at a time, and one cleanup request
InitNotif ==
  /\ NotifiedDb
  /\ Listening
  /\ limits = [procs |-> 1, requests |-> 1]

\* ids a caller can name: every id handed out and one never used
NotificationTargets == 1..NextNotificationId

\* the outcome of one call of NotificationService
ServiceCall(fn, userId, notificationId, olderThanDays, value) ==
  [IdleReq EXCEPT !.op = fn, !.pc = "done", !.userId = userId,
                  !.notificationId = notificationId,
                  !.olderThanDays = olderThanDays, !.result = value]

\* updateMany / deleteMany over the rows a where clause selects
UpdateMany(where(_), data(_)) ==
  [i \in 1..Len(notifications) |->
     IF where(notifications[i]) THEN data(notifications[i]) ELSE notifications[i]]

DeleteMany(where(_)) ==
  LET Keep(row) == ~where(row) IN SelectSeq(notifications, Keep)

MarkRead(row) == [row EXCEPT !.readAt = <<Today>>]

CanCall(p) == p <= limits.procs /\ Free(p)

MarkAsReadCall_anyOwner(p) ==
  /\ CanCall(p)
  /\ \E notificationId \in NotificationTargets, userId \in Users :
       LET Where(row) == row.id = notificationId
       IN /\ notifications' = UpdateMany(Where, MarkRead)
          /\ req' = [req EXCEPT ![p] =
                       ServiceCall("markAsRead", userId, notificationId, 0, <<>>)]
  /\ UNCHANGED <<users, companies, documents, nextDoc, audit, hookRows, started, limits>>

MarkAsReadCall(p) ==
  /\ CanCall(p)
  /\ \E notificationId \in NotificationTargets, userId \in Users :
       LET Where(row) == row.id = notificationId /\ row.userId = userId
       IN /\ notifications' = UpdateMany(Where, MarkRead)
          /\ req' = [req EXCEPT ![p] =
                       ServiceCall("markAsRead", userId, notificationId, 0, <<>>)]
  /\ UNCHANGED <<users, companies, documents, nextDoc, audit, hookRows, started, limits>>

MarkAllAsReadCall(p) ==
  /\ CanCall(p)
  /\ \E userId \in Users :
       LET Where(row) == row.userId = userId /\ row.readAt = <<>>
       IN /\ notifications' = UpdateMany(Where, MarkRead)
          /\ req' = [req EXCEPT ![p] = ServiceCall("markAllAsRead", userId, 0, 0, <<>>)]
  /\ UNCHANGED <<users, companies, documents, nextDoc, audit, hookRows, started, limits>>

DeleteCall(p) ==
  /\ CanCall(p)
  /\ \E notificationId \in NotificationTargets, userId \in Users :
       LET Where(row) == row.id = notificationId /\ row.userId = userId
       IN /\ notifications' = DeleteMany(Where)
          /\ req' = [req EXCEPT ![p] =
                       ServiceCall("delete", userId, notificationId, 0, <<>>)]
  /\ UNCHANGED <<users, companies, documents, nextDoc, audit, hookRows, started, limits>>

CleanupCall_unreadToo(p) ==
  /\ CanCall(p)
  /\ \E q \in QueryDays :
       LET olderThanDays == olderThanDaysOf(q)
           Where(row) == row.createdAt < cutoffDate(olderThanDays)
       IN /\ notifications' = DeleteMany(Where)
          /\ req' = [req EXCEPT ![p] =
                       ServiceCall("cleanup", 0, 0, olderThanDays,
                                   <<Len(notifications) - Len(DeleteMany(Where))>>)]
  /\ UNCHANGED <<users, companies, documents, nextDoc, audit, hookRows, started, limits>>

\* NotificationService.cleanup: every user's rows; returns result.count
CleanupCall(p) ==
  /\ CanCall(p)
  /\ \E q \in QueryDays :
       LET olderThanDays == olderThanDaysOf(q)
           Where(row) ==
             row.createdAt < cutoffDate(olderThanDays) /\ row.readAt # <<>>
       IN /\ notifications' = DeleteMany(Where)
          /\ req' = [req EXCEPT ![p] =
                       ServiceCall("cleanup", 0, 0, olderThanDays,
                                   <<Len(notifications) - Len(DeleteMany(Where))>>)]
  /\ UNCHANGED <<users, companies, documents, nextDoc, audit, hookRows, started, limits>>

\* DELETE /api/notifications/:userId/cleanup
CleanupStart(p) ==
  /\ CanStart(p)
  /\ \E userId \in Users, q \in QueryDays :
       Begin(p, [IdleReq EXCEPT !.op = "cleanupRoute", !.userId = userId,
                                !.olderThanDays = olderThanDaysOf(q),
                                !.pc = "n_find"])
  /\ auditLog
  /\ Started
  /\ UNCHANGED <<users, companies, documents, nextDoc, notifications>>

CleanupFind(p) ==
  /\ At(p, "cleanupRoute", "n_find")
  /\ req' = [req EXCEPT ![p] =
               IF req[p].userId \in users THEN [req[p] EXCEPT !.pc = "n_delete"]
               ELSE Respond(req[p], 404, "NotFound")]
  /\ UNCHANGED <<db, started, limits>>

CleanupDelete(p) ==
  /\ At(p, "cleanupRoute", "n_delete")
  /\ LET Where(row) ==
           /\ row.userId = req[p].userId
           /\ row.createdAt < cutoffDate(req[p].olderThanDays)
           /\ row.readAt # <<>>
     IN /\ notifications' = DeleteMany(Where)
        /\ req' = [req EXCEPT ![p] =
                     [Respond(req[p], 200, "") EXCEPT
                        !.userId = req[p].userId,
                        !.olderThanDays = req[p].olderThanDays,
                        !.result = <<Len(notifications) - Len(DeleteMany(Where))>>]]
  /\ UNCHANGED <<users, companies, documents, nextDoc, audit, hookRows, started, limits>>

NextNotif ==
  \E p \in Procs :
    \/ MarkAsReadCall(p)
    \/ MarkAllAsReadCall(p)
    \/ DeleteCall(p)
    \/ CleanupCall(p)
    \/ CleanupStart(p)
    \/ CleanupFind(p)
    \/ CleanupDelete(p)

SpecNotif == InitNotif /\ [][NextNotif]_vars

\* ------------------------------------------------------------ properties
Done(p) == req[p].pc = "done"

Ok(p) == req[p].status \in {200, 201}

Existing == 1..Len(companies)

CompaniesOf(u) == {c \in Existing : companies[c].userId = u}

NotificationsOf(u, event) ==
  {i \in 1..Len(notifications) :
     notifications[i].userId = u /\ notifications[i].event = event}

Mutations == {"kyc", "link", "unlink", "upload", "delete"}

\* C1: every company's score is within 0..100 and equals the sum of its
\* four breakdown values.
C1_ScoreInRange ==
  \A c \in Existing :
    LET s == calculateScore(c)
    IN s.score \in 0..100 /\ s.score = BreakdownSum(s.breakdown)

\* C2: a KYC verify handler that reads a company whose kycVerified is true
\* answers 400 AlreadyDone in that step and leaves every store unchanged,
\* without having invoked onCompanyDataChange.
C2_KycAlreadyDone ==
  [][\A p \in Procs :
       (/\ At(p, "kyc", "k_find")
        /\ CompanyExists(req[p].cid)
        /\ companies[req[p].cid].kycVerified
        /\ req'[p] # req[p])
       => (/\ req'[p].pc = "done"
           /\ req'[p].status = 400
           /\ req'[p].err = "AlreadyDone"
           /\ req'[p].changeCalls = 0
           /\ req'[p].notified = 0
           /\ req'[p].audited = 0
           /\ UNCHANGED db)]_vars

C2_Witness ==
  \E p \in Procs :
    /\ Done(p)
    /\ req[p].op = "kyc"
    /\ req[p].err = "AlreadyDone"
    /\ companies[req[p].cid].kycVerified
    /\ NotificationsOf(companies[req[p].cid].userId, "kyc_verified") # {}

\* C3: a link-financials handler that reads a company whose financialsLinked
\* is true answers 400 AlreadyDone in that step and leaves every store
\* unchanged, without having invoked onCompanyDataChange.
C3_LinkAlreadyDone ==
  [][\A p \in Procs :
       (/\ At(p, "link", "l_find")
        /\ CompanyExists(req[p].cid)
        /\ companies[req[p].cid].financialsLinked
        /\ req'[p] # req[p])
       => (/\ req'[p].pc = "done"
           /\ req'[p].status = 400
           /\ req'[p].err = "AlreadyDone"
           /\ req'[p].changeCalls = 0
           /\ req'[p].notified = 0
           /\ req'[p].audited = 0
           /\ UNCHANGED db)]_vars

C3_Witness ==
  \E p \in Procs :
    /\ Done(p)
    /\ req[p].op = "link"
    /\ req[p].err = "AlreadyDone"
    /\ companies[req[p].cid].financialsLinked
    /\ NotificationsOf(companies[req[p].cid].userId, "financials_linked") # {}

\* C4: the owner of one company never holds more than one KYC success
\* notification, whatever the order or overlap of the verify requests.
C4_KycNotifiedOnce ==
  \A u \in Users :
    Cardinality(CompaniesOf(u)) = 1
      => Cardinality(NotificationsOf(u, "kyc_verified")) <= 1

\* C5 (as claimed): the owner of one company never holds more than one
\* financials-linked notification, however often the company is linked.
C5_LinkNotifiedOnce ==
  \A u \in Users :
    Cardinality(CompaniesOf(u)) = 1
      => Cardinality(NotificationsOf(u, "financials_linked")) <= 1

\* C5 (amended): every link request answered with success has created exactly
\* one financials-linked notification, a re-link after an unlink included,
\* and only the link handler's notification step creates one.
C5_LinkNotifiesEachTime ==
  /\ [](\A p \in Procs :
          Done(p) /\ req[p].op = "link" /\ Ok(p) => req[p].notified = 1)
  /\ [][\A u \in Users :
          NotificationsOf(u, "financials_linked")' # NotificationsOf(u, "financials_linked")
            => \E p \in Procs :
                 /\ At(p, "link", "l_notify")
                 /\ req'[p].notified = 1
                 /\ Len(notifications') = Len(notifications) + 1]_vars

C5_Witness ==
  \E p \in Procs :
    /\ Done(p)
    /\ req[p].op = "link"
    /\ Ok(p)
    /\ Cardinality(CompaniesOf(companies[req[p].cid].userId)) = 1
    /\ Cardinality(NotificationsOf(companies[req[p].cid].userId, "financials_linked")) = 2

\* C6: no user owns more than one company.
C6_OneCompanyPerUser ==
  \A u \in Users : Cardinality(CompaniesOf(u)) <= 1

\* C7: no step turns a company's kycVerified from true to false.
C7_KycMonotonic ==
  [][\A c \in Existing : companies[c].kycVerified => companies'[c].kycVerified]_vars

\* C8: a mutation request answered with success that persisted its change has
\* invoked onCompanyDataChange exactly once; one that persisted nothing has
\* never invoked it; and the invocation happens after the request's own
\* write and before its response.
C8_ChangeInvokedOnce ==
  /\ [](\A p \in Procs :
          Done(p) /\ req[p].op \in Mutations
            => /\ (Ok(p) /\ req[p].persisted => req[p].changeCalls = 1)
               /\ (~req[p].persisted => req[p].changeCalls = 0))
  /\ [][\A p \in Procs :
          (req[p].op \in Mutations /\ req'[p].changeCalls > req[p].changeCalls)
            => /\ req[p].persisted
               /\ ~Done(p)
               /\ ~Done(p)'
               /\ req'[p].changeCalls = 1]_vars

C8_Witness ==
  \E p \in Procs :
    /\ Done(p)
    /\ req[p].op = "delete"
    /\ Ok(p)
    /\ req[p].persisted
    /\ req[p].changeCalls = 1

\* C9: every request answered with success whose write changed the company's
\* computed score has invoked onCompanyDataChange.
C9_ScoreChangeTriggers ==
  \A p \in Procs :
    Done(p) /\ Ok(p) /\ req[p].scoreChanged => req[p].changeCalls >= 1

\* C10: a KYC, link or upload request whose notification insert failed still
\* completes with a success response, its change persisted.
C10_NotifyFailureTolerated ==
  \A p \in Procs :
    Done(p) /\ req[p].op \in {"kyc", "link", "upload"} /\ req[p].notifyFailed
      => Ok(p) /\ req[p].persisted

\* C11: every upload request answered with success has created exactly one
\* notification, of type info, for the company's owner, naming the document
\* the request stored; no document is named by two notifications; and no step
\* of a document delete request touches the notification store.
C11_UploadNotifiesOnce ==
  /\ [](\A p \in Procs :
          Done(p) /\ req[p].op = "upload" /\ Ok(p) => req[p].notified = 1)
  /\ [](\A d \in 1..(nextDoc - 1) :
          Cardinality({i \in 1..Len(notifications) :
                         /\ notifications[i].event = "document_uploaded"
                         /\ notifications[i].documentName = d}) <= 1)
  /\ [][\A p \in Procs :
          (At(p, "upload", "f_notify") /\ req'[p].notified > req[p].notified)
            => /\ Len(notifications') = Len(notifications) + 1
               /\ SubSeq(notifications', 1, Len(notifications)) = notifications
               /\ LET row == notifications'[Len(notifications')]
                  IN /\ row.userId = companies[req[p].cid].userId
                     /\ row.type = "info"
                     /\ row.event = "document_uploaded"
                     /\ row.documentName = req[p].doc]_vars
  /\ [][\A p \in Procs :
          ((req[p].op = "delete" \/ req'[p].op = "delete") /\ req'[p] # req[p])
            => UNCHANGED notifications]_vars

C11_Witness ==
  \E p \in Procs :
    /\ Done(p)
    /\ req[p].op = "delete"
    /\ Ok(p)
    /\ req[p].persisted
    /\ DocumentsOf(req[p].cid) = {}
    /\ \E i \in 1..Len(notifications) :
         /\ notifications[i].event = "document_uploaded"
         /\ notifications[i].userId = companies[req[p].cid].userId
         /\ notifications[i].documentName = 1

\* ------------------------------------------- properties of the service calls
Called(p, fn) == Done(p) /\ req[p].op = fn

Scored(p) == Called(p, "calculateScore") /\ CompanyExists(req[p].cid)

Recommended(p) == Called(p, "getRecommendations") /\ CompanyExists(req[p].cid)

DocumentCount(p) == Cardinality(DocumentsOf(req[p].cid))

\* C12: calculateScore and getRecommendations called with an id that names no
\* company throw 'Company not found' and return nothing.
C12_NotFound ==
  \A p \in Procs :
    (/\ Called(p, "calculateScore") \/ Called(p, "getRecommendations")
     /\ ~CompanyExists(req[p].cid))
      => req[p].err = "Company not found" /\ req[p].result = <<>>

C12_Witness ==
  \E p \in Procs, q \in Procs :
    /\ Called(p, "calculateScore")
    /\ Called(q, "getRecommendations")
    /\ ~CompanyExists(req[p].cid)
    /\ ~CompanyExists(req[q].cid)
    /\ req[p].err = "Company not found"
    /\ req[q].err = "Company not found"

\* C13: the breakdown returned by calculateScore has kycVerified = 30 exactly
\* when the company's flag is set (else 0) and financialsLinked = 20 exactly
\* when that flag is set (else 0), whatever the revenue and documents.
C13_FlagPoints ==
  \A p \in Procs :
    Scored(p) =>
      LET company == companies[req[p].cid]
          breakdown == req[p].result[1].breakdown
      IN /\ breakdown.kycVerified = (IF company.kycVerified THEN 30 ELSE 0)
         /\ breakdown.financialsLinked = (IF company.financialsLinked THEN 20 ELSE 0)

C13_Witness ==
  \E p \in Procs :
    /\ Scored(p)
    /\ companies[req[p].cid].kycVerified
    /\ ~companies[req[p].cid].financialsLinked
    /\ req[p].result[1].breakdown.kycVerified = 30
    /\ req[p].result[1].breakdown.financialsLinked = 0

\* C14: the breakdown's documentsUploaded is 5 per document of the company,
\* and 25 from the fifth document on.
C14_DocumentPoints ==
  \A p \in Procs :
    Scored(p) =>
      req[p].result[1].breakdown.documentsUploaded =
        (IF DocumentCount(p) >= 5 THEN 25 ELSE 5 * DocumentCount(p))

C14_Witness ==
  \E p \in Procs :
    /\ Scored(p)
    /\ DocumentCount(p) = 6
    /\ req[p].result[1].breakdown.documentsUploaded = 25

\* C15: for a company with revenue r >= 0 the breakdown's revenueScore is
\* min(r, 1000000) * 25 / 1000000 rounded to the nearest whole number, halves
\* up, and never above 25.
C15_RevenueScore ==
  \A p \in Procs :
    (Scored(p) /\ companies[req[p].cid].revenue >= 0) =>
      LET r == Min(companies[req[p].cid].revenue, 1000000)
          revenueScore == req[p].result[1].breakdown.revenueScore
      IN /\ revenueScore = (2 * r * 25 + 1000000) \div 2000000
         /\ revenueScore <= 25

\* C16: a company with both flags false, no document and revenue 0 scores 0
\* with every breakdown value 0; a company with both flags true, five or
\* more documents and revenue of at least 1000000 scores 100 with breakdown
\* 30, 20, 25, 25.
C16_Extremes ==
  \A p \in Procs :
    Scored(p) =>
      LET company == companies[req[p].cid]
          got == req[p].result[1]
      IN /\ (/\ ~company.kycVerified
              /\ ~company.financialsLinked
              /\ DocumentCount(p) = 0
              /\ company.revenue = 0)
               => got = [score |-> 0,
                         breakdown |-> [kycVerified |-> 0, financialsLinked |-> 0,
                                        documentsUploaded |-> 0, revenueScore |-> 0]]
         /\ (/\ company.kycVerified
              /\ company.financialsLinked
              /\ DocumentCount(p) >= 5
              /\ company.revenue >= 1000000)
               => got = [score |-> 100,
                         breakdown |-> [kycVerified |-> 30, financialsLinked |-> 20,
                                        documentsUploaded |-> 25, revenueScore |-> 25]]

C16_Witness ==
  \E p \in Procs :
    /\ Scored(p)
    /\ companies[req[p].cid].kycVerified
    /\ companies[req[p].cid].financialsLinked
    /\ DocumentCount(p) = 5
    /\ companies[req[p].cid].revenue = 2000000
    /\ req[p].result[1].score = 100

KycLine == "Complete KYC verification to earn 30 points"

LinkLine == "Link your bank account to earn 20 points"

DocumentLine == "Upload N more document to maximize document points"

RevenueLine == "As your revenue grows, your score will automatically improve"

Rank(text) ==
  CASE text = KycLine -> 1
    [] text = LinkLine -> 2
    [] text = DocumentLine -> 3
    [] text = RevenueLine -> 4
    [] OTHER -> 0

\* C17: getRecommendations returns the KYC line exactly when KYC is not
\* verified, the link line exactly when financials are not linked, the
\* document line exactly when the company has fewer than 5 documents and the
\* revenue line exactly when revenue is below 1000000, each at most once and
\* in that order.
C17_RecommendationsExact ==
  \A p \in Procs :
    Recommended(p) =>
      LET company == companies[req[p].cid]
          recs == req[p].result[1]
          Has(text) == \E i \in 1..Len(recs) : recs[i].text = text
      IN /\ Has(KycLine) <=> ~company.kycVerified
         /\ Has(LinkLine) <=> ~company.financialsLinked
         /\ Has(DocumentLine) <=> DocumentCount(p) < 5
         /\ Has(RevenueLine) <=> company.revenue < 1000000
         /\ \A i \in 1..Len(recs) : Rank(recs[i].text) > 0
         /\ \A i \in 1..Len(recs), j \in 1..Len(recs) :
              i < j => Rank(recs[i].text) < Rank(recs[j].text)

C17_Witness ==
  \E p \in Procs :
    /\ Recommended(p)
    /\ ~companies[req[p].cid].kycVerified
    /\ ~companies[req[p].cid].financialsLinked
    /\ DocumentCount(p) = 0
    /\ companies[req[p].cid].revenue = 0
    /\ Len(req[p].result[1]) = 4

\* C18: with n < 5 documents the document line names 5 - n documents and
\* carries the plural "s" exactly when 5 - n > 1; with 5 or more documents
\* there is no document line.
C18_DocumentWording ==
  \A p \in Procs :
    Recommended(p) =>
      LET recs == req[p].result[1]
          lines == {i \in 1..Len(recs) : recs[i].text = DocumentLine}
      IN IF DocumentCount(p) < 5
         THEN /\ Cardinality(lines) = 1
              /\ \A i \in lines :
                   /\ recs[i].needed = 5 - DocumentCount(p)
                   /\ recs[i].suffix = (IF 5 - DocumentCount(p) = 1 THEN "" ELSE "s")
         ELSE lines = {}

C18_Witness ==
  \E p \in Procs :
    /\ Recommended(p)
    /\ DocumentCount(p) = 4
    /\ \E i \in 1..Len(req[p].result[1]) :
         /\ req[p].result[1][i].needed = 1
         /\ req[p].result[1][i].suffix = ""

\* C19: a call of calculateScore changes no store, what it returns is the
\* formula over the stored company and its documents, and two calls for the
\* same company with no write in between return the same score and breakdown.
C19_PureRead ==
  /\ [][\A p \in Procs :
          (req'[p].op = "calculateScore" /\ req'[p] # req[p]) => UNCHANGED db]_vars
  /\ [](\A p \in Procs :
          Scored(p) =>
            req[p].result[1] = ScoreOf(companies[req[p].cid], DocumentCount(p)))
  /\ [](\A p \in Procs, q \in Procs :
          (/\ Called(p, "calculateScore")
           /\ Called(q, "calculateScore")
           /\ req[p].cid = req[q].cid)
            => req[p].result = req[q].result /\ req[p].err = req[q].err)

C19_Witness ==
  \E p \in Procs, q \in Procs :
    /\ p # q
    /\ Scored(p)
    /\ Scored(q)
    /\ req[p].cid = req[q].cid
    /\ req[p].result = req[q].result

\* C20: a call of onCompanyDataChange changes no store (no notification, no
\* audit row, no company or document write) and returns nothing; it throws
\* 'Company not found' exactly when the company does not exist.
C20_ChangeWritesNothing ==
  /\ [][\A p \in Procs :
          (req'[p].op = "onCompanyDataChange" /\ req'[p] # req[p])
            => UNCHANGED db]_vars
  /\ [](\A p \in Procs :
          Called(p, "onCompanyDataChange")
            => /\ req[p].result = <<>>
               /\ (req[p].err = "Company not found") <=> ~CompanyExists(req[p].cid)
               /\ (req[p].changeCalls = 1) <=> CompanyExists(req[p].cid))

C20_Witness ==
  \E p \in Procs, q \in Procs :
    /\ Called(p, "onCompanyDataChange")
    /\ Called(q, "onCompanyDataChange")
    /\ CompanyExists(req[p].cid)
    /\ req[p].err = ""
    /\ ~CompanyExists(req[q].cid)
    /\ req[q].err = "Company not found"

\* C21: no notification with event score_improved ever exists, whatever
\* requests (create, update, verify, link, unlink, upload, delete,
\* recalculate) have run or are running.
C21_NoScoreImproved ==
  \A i \in 1..Len(notifications) : notifications[i].event # "score_improved"

C21_Witness ==
  \E p \in Procs :
    /\ Done(p)
    /\ req[p].op = "recalculate"
    /\ Ok(p)
    /\ req[p].changeCalls = 1
    /\ companies[req[p].cid].kycVerified
    /\ calculateScore(req[p].cid).score >= 30
    /\ Len(notifications) >= 2

\* the company's documents with the category column left out
Uncategorised(cid) ==
  {[id |-> d.id, companyId |-> d.companyId] : d \in {e \in documents : e.companyId = cid}}

\* C22: what calculateScore and getRecommendations return is determined by
\* the company's flags and revenue and by its documents without their
\* categories, so states that differ only in categories give the same
\* results.
C22_CategoryBlind ==
  \A p \in Procs :
    /\ Scored(p) =>
         req[p].result[1] =
           ScoreOf(companies[req[p].cid], Cardinality(Uncategorised(req[p].cid)))
    /\ Recommended(p) =>
         req[p].result[1] =
           Recommendations(companies[req[p].cid], Cardinality(Uncategorised(req[p].cid)))

C22_Witness ==
  \E p \in Procs, q \in Procs :
    /\ Scored(p)
    /\ Recommended(q)
    /\ req[p].cid = req[q].cid
    /\ \E d \in documents, e \in documents :
         /\ d.companyId = req[p].cid
         /\ e.companyId = req[p].cid
         /\ d.category = "pitch-deck"
         /\ e.category = "other"
    /\ Cardinality(Uncategorised(req[p].cid)) = 3
    /\ req[p].result[1].breakdown.documentsUploaded = 15

\* C24: every stored company has revenue >= 0 and targetRaise > 0.
C24_CompanyBounds ==
  \A c \in Existing : companies[c].revenue >= 0 /\ companies[c].targetRaise > 0

\* C25: a company's financialsLinked changes only in the write of a link
\* request (false to true) or of an unlink request (true to false); an
\* unlink handler that reads a company that is not linked answers 400 in
\* that step, without having invoked onCompanyDataChange or written an audit
\* row, and changes no store.
C25_LinkedOnlyByLinkRoutes ==
  /\ [][\A c \in Existing :
          companies'[c].financialsLinked # companies[c].financialsLinked
            => \E p \in Procs :
                 /\ req[p].cid = c
                 /\ \/ At(p, "link", "l_update") /\ companies'[c].financialsLinked
                    \/ At(p, "unlink", "x_update") /\ ~companies'[c].financialsLinked]_vars
  /\ [][\A p \in Procs :
          (/\ At(p, "unlink", "x_find")
           /\ CompanyExists(req[p].cid)
           /\ ~companies[req[p].cid].financialsLinked
           /\ req'[p] # req[p])
            => (/\ req'[p].pc = "done"
                /\ req'[p].status = 400
                /\ req'[p].changeCalls = 0
                /\ req'[p].audited = 0
                /\ UNCHANGED db)]_vars

\* C26: for one company, calculateScore returns a score of 100 exactly when
\* getRecommendations returns the empty list.
C26_MaxIffNothingToRecommend ==
  \A p \in Procs, q \in Procs :
    (Scored(p) /\ Recommended(q) /\ req[p].cid = req[q].cid)
      => (req[p].result[1].score = 100 <=> req[q].result[1] = <<>>)

\* the score calculateScore computes for the company a request names
ScoreNow(p) == calculateScore(req[p].cid).score

\* the write of request p, as op at pc, went through
Wrote(p, op, pc, nextPc) == At(p, op, pc) /\ req'[p].pc = nextPc

\* C27: the write of a KYC verification raises the company's computed score
\* by 30, the write of a link by 20, the write of an unlink lowers it by 20;
\* the insert of an upload raises it by 5 with fewer than 5 documents before
\* it and by 0 otherwise; the removal of a delete lowers it by 5 with at most
\* 5 documents before it and by 0 otherwise.
C27_FixedDeltas ==
  [][\A p \in Procs :
       LET n == DocumentCount(p)
       IN /\ Wrote(p, "kyc", "k_update", "k_notify") => ScoreNow(p)' = ScoreNow(p) + 30
          /\ Wrote(p, "link", "l_update", "l_notify") => ScoreNow(p)' = ScoreNow(p) + 20
          /\ Wrote(p, "unlink", "x_update", "x_change") => ScoreNow(p)' = ScoreNow(p) - 20
          /\ Wrote(p, "upload", "f_upload", "f_notify")
               => ScoreNow(p)' = ScoreNow(p) + (IF n < 5 THEN 5 ELSE 0)
          /\ Wrote(p, "delete", "d_delete", "d_change")
               => ScoreNow(p)' = ScoreNow(p) - (IF n <= 5 THEN 5 ELSE 0)]_vars

\* no request is in flight
Quiescent == \A p \in Procs : Free(p)

\* every request answered since the server started still shows its outcome
AllVisible == Cardinality({p \in Procs : Done(p)}) = started

\* the answered requests of one kind whose write on company c went through
Completed(op, c) ==
  {p \in Procs : Done(p) /\ req[p].op = op /\ req[p].cid = c /\ req[p].persisted}

\* C28: with no request in flight, whatever the interleaving was, the score
\* calculateScore computes for a company counts one document for every upload
\* whose insert went through less every delete whose removal went through,
\* carries the 30 points of a KYC verification and the 20 points of a link
\* that no later unlink or update overwrote, and is the formula of the stored
\* company and its stored documents.
C28_NothingLost ==
  (Quiescent /\ AllVisible) =>
    \A c \in Existing :
      LET kept == Cardinality(Completed("upload", c)) - Cardinality(Completed("delete", c))
          got == calculateScore(c)
      IN /\ Cardinality(DocumentsOf(c)) = kept
         /\ got.breakdown.documentsUploaded = Min(kept * 5, 25)
         /\ (Completed("kyc", c) # {} /\ Completed("update", c) = {})
              => got.breakdown.kycVerified = 30
         /\ (/\ Completed("link", c) # {}
             /\ Completed("unlink", c) = {}
             /\ Completed("update", c) = {})
              => got.breakdown.financialsLinked = 20
         /\ got.score = Min(BreakdownSum(Breakdown(companies[c], kept)), 100)

C28_Witness ==
  /\ Quiescent
  /\ \E p \in Procs, q \in Procs :
       /\ p # q
       /\ req[p].cid = req[q].cid
       /\ Completed("upload", req[p].cid) = {p, q}
       /\ Ok(p) /\ Ok(q)
       /\ calculateScore(req[p].cid).breakdown.documentsUploaded = 10

\* the stored notifications
Rows == {notifications[i] : i \in 1..Len(notifications)}

Read(row) == row.readAt # <<>>

\* request slot p holds the outcome of a call of fn made in this step
Calls(p, fn) == req'[p].op = fn /\ req'[p] # req[p]

\* C23: a row that a call of NotificationService.cleanup or the delete of a
\* cleanup request removes or changes was read and was created before the
\* cutoff, today less olderThanDays, and for the request it belongs to the
\* user of the path; every other row, each unread one among them, stays as
\* it was.
C23_CleanupOnlyReadAndOld ==
  [][\A p \in Procs, row \in Rows :
       /\ Calls(p, "cleanup")
            => \/ Read(row) /\ row.createdAt < cutoffDate(req'[p].olderThanDays)
               \/ row \in Rows'
       /\ (At(p, "cleanupRoute", "n_delete") /\ req'[p] # req[p])
            => \/ /\ Read(row)
                  /\ row.createdAt < cutoffDate(req[p].olderThanDays)
                  /\ row.userId = req[p].userId
               \/ row \in Rows']_vars

C23_Witness ==
  \E p \in Procs :
    /\ At(p, "cleanupRoute", "done")
    /\ req[p].status = 200
    /\ req[p].result[1] >= 1
    /\ \E row \in Rows :
         /\ ~Read(row)
         /\ row.createdAt < cutoffDate(req[p].olderThanDays)
         /\ row.userId = req[p].userId

\* C29: markAsRead and delete leave every row but the one with the given id
\* and the given owner as it was, so with the id of another user's row they
\* change nothing, and markAsRead removes no row; markAllAsRead leaves the
\* rows of other users and the rows already read as they were, removes no
\* row, and leaves no read row unread.
C29_OwnRowsOnly ==
  [][\A p \in Procs :
       LET userId == req'[p].userId
           Target(row) == row.id = req'[p].notificationId /\ row.userId = userId
           Stays(row) == \E after \in Rows' : after.id = row.id
       IN /\ Calls(p, "markAsRead")
               => /\ \A row \in Rows : Stays(row) /\ (Target(row) \/ row \in Rows')
                  /\ (\A row \in Rows : ~Target(row)) => notifications' = notifications
          /\ Calls(p, "delete")
               => /\ \A row \in Rows : Target(row) \/ row \in Rows'
                  /\ (\A row \in Rows : ~Target(row)) => notifications' = notifications
          /\ Calls(p, "markAllAsRead")
               => \A row \in Rows :
                    /\ (row.userId # userId \/ Read(row)) => row \in Rows'
                    /\ \E after \in Rows' :
                         after.id = row.id /\ (Read(row) => Read(after))]_vars

C29_Witness ==
  \E p \in Procs :
    /\ Called(p, "markAsRead")
    /\ req[p].userId \in users
    /\ \E row \in Rows :
         /\ row.id = req[p].notificationId
         /\ row.userId # req[p].userId
         /\ ~Read(row)

\* the audit rows of one score action that are about company cid: its own
\* rows, and the rows of the documents stored for it
EventsOf(cid) ==
  LET About(row) ==
        /\ row.action \in ScoreEvents
        /\ \/ row.resource = [kind |-> "Company", id |-> cid]
           \/ /\ row.resource.kind = "Document"
              /\ \E d \in DocumentsOf(cid) : d.id = row.resource.id
  IN SelectSeq(audit, About)

\* C30: the history a breakdown request answers with has one entry for each
\* kyc_verified, financials_linked and document_uploaded audit row about the
\* company, in the order the rows were written, each with its change (30, 20,
\* 5) and with the running sum of the changes, at most 100, as its score.
C30_HistoryComplete ==
  [][\A p \in Procs :
       (At(p, "breakdown", "b_history") /\ req'[p].status = 200)
         => LET events == EventsOf(req[p].cid)
                history == req'[p].result[1]
            IN /\ Len(history) = Len(events)
               /\ \A n \in 1..Len(history) :
                    /\ n <= Len(events)
                    /\ history[n].event = events[n].action
                    /\ history[n].change = ScoreChange(events[n].action)
                    /\ history[n].score = Min(CurrentScore(events, n), 100)]_vars
====
